---- MODULE Spec2Model ----
(***************************************************************************)
(* Model of the pretty-URL pipeline of tools/emit_pretty_urls.py (stage 1: *)
(* path mapping, link and asset rewriting, redirect stubs) and of          *)
(* tools/generate_sitemap.py (stage 2: the sitemap build).                 *)
(*                                                                         *)
(* Text is modelled as sequences of tokens.  A token stands for a run of   *)
(* characters that the regular expressions of the source never split: "/"  *)
(* is the path separator, ".html" / ".HTML" a file extension, "?x=1" a     *)
(* query string, "#team" a fragment, SITE the scheme and host of the site. *)
(* A document is a sequence of elements; an element is one attribute       *)
(* occurrence (tag, attribute name, quote character, value tokens).  Every *)
(* pattern of the source matches inside one attribute occurrence, so a     *)
(* substitution over a document is a map over its elements.                *)
(***************************************************************************)
EXTENDS Integers, Sequences, FiniteSets, TLC

VARIABLES
    html, page, once, twice, rpc,            \* rewriter: input, location, outputs
    fs, orig, todo, changed, pc, runs,       \* stage 1: the tree and main()'s position
    pending, entries, sitemap, spc           \* stage 2: the sitemap build

vars == <<html, page, once, twice, rpc, fs, orig, todo, changed, pc, runs,
          pending, entries, sitemap, spc>>

rewriterVars == <<html, page, once, twice, rpc>>
stageVars    == <<todo, changed, pc, runs>>
sitemapVars  == <<pending, entries, sitemap, spc>>

---------------------------------------------------------------------------
(* Sequence helpers *)

Last(s) == s[Len(s)]

Front(s) == SubSeq(s, 1, Len(s) - 1)

Drop(s, n) == SubSeq(s, n + 1, Len(s))

Take(s, n) == SubSeq(s, 1, n)

RECURSIVE Concat(_)
Concat(ss) == IF ss = <<>> THEN <<>> ELSE Head(ss) \o Concat(Tail(ss))

Contains(s, toks) == \E i \in 1..Len(s) : s[i] \in toks

EndsWith(s, suffix) ==
    /\ Len(s) >= Len(suffix)
    /\ SubSeq(s, Len(s) - Len(suffix) + 1, Len(s)) = suffix

---------------------------------------------------------------------------
(* Tokens *)

SITE == "https://www.gradsummit.com"

EXTERNAL == "https://cdn.example.org"

DATA == "data:image/png;base64,AAAA"

\* the extensions the case-insensitive pattern \.html matches
HtmlExts == {".html", ".HTML"}

Queries == {"?x=1"}

Fragments == {"#team"}

Quotes == {"'", "\""}

\* PROTO_RE: the value starts with http(s):, mailto:, tel:, data:, blob:, # or /
PROTO_RE(val) ==
    /\ val # <<>>
    /\ Head(val) \in {SITE, EXTERNAL, DATA, "/"} \cup Fragments

\* the lookahead (?!https?:|mailto:|tel:|#|/) of the relative .html link pattern
HrefLookahead(val) ==
    /\ val # <<>>
    /\ Head(val) \notin {SITE, EXTERNAL, "/"} \cup Fragments

\* the lookahead (?!https?:|mailto:|tel:|data:|blob:|#|/) of the asset pattern
AssetLookahead(val) ==
    /\ val # <<>>
    /\ Head(val) \notin {SITE, EXTERNAL, DATA, "/"} \cup Fragments

---------------------------------------------------------------------------
(* urljoin / urlparse *)

\* index of the first query or fragment token of a url, Len + 1 when none
RECURSIVE TailStart(_, _)
TailStart(url, i) ==
    IF i > Len(url) THEN i
    ELSE IF url[i] \in Queries \cup Fragments THEN i
    ELSE TailStart(url, i + 1)

\* urlparse(url).path: the url without its query and fragment
UrlPath(url) == Take(url, TailStart(url, 1) - 1)

\* str.split("/") on tokens: the segments between the separators
RECURSIVE SplitSlash(_, _)
SplitSlash(toks, cur) ==
    IF toks = <<>> THEN <<cur>>
    ELSE IF Head(toks) = "/" THEN <<cur>> \o SplitSlash(Tail(toks), <<>>)
    ELSE SplitSlash(Tail(toks), Append(cur, Head(toks)))

\* "/".join(segments)
RECURSIVE JoinSlash(_)
JoinSlash(segs) ==
    IF segs = <<>> THEN <<>>
    ELSE IF Len(segs) = 1 THEN Head(segs)
    ELSE Head(segs) \o <<"/">> \o JoinSlash(Tail(segs))

\* filter(None, segments): the non-empty segments
RECURSIVE NonEmpty(_)
NonEmpty(segs) ==
    IF segs = <<>> THEN <<>>
    ELSE IF Head(segs) = <<>> THEN NonEmpty(Tail(segs))
    ELSE <<Head(segs)>> \o NonEmpty(Tail(segs))

\* the dot-segment loop of urljoin
RECURSIVE RemoveDots(_, _)
RemoveDots(segs, resolved) ==
    IF segs = <<>> THEN resolved
    ELSE IF Head(segs) = <<"..">>
         THEN RemoveDots(Tail(segs),
                         IF resolved = <<>> THEN <<>> ELSE Front(resolved))
    ELSE IF Head(segs) = <<".">> THEN RemoveDots(Tail(segs), resolved)
    ELSE RemoveDots(Tail(segs), Append(resolved, Head(segs)))

\* the path of urljoin(SITE + base_dir, rel_url)
UrlJoinPath(base_dir, rel_url) ==
    LET path == UrlPath(rel_url)
        bparts == SplitSlash(base_dir, <<>>)
        base_parts == IF Last(bparts) # <<>> THEN Front(bparts) ELSE bparts
        raw == IF path # <<>> /\ Head(path) = "/"
               THEN SplitSlash(path, <<>>)
               ELSE base_parts \o SplitSlash(path, <<>>)
        segments == IF (path # <<>> /\ Head(path) = "/") \/ Len(raw) < 3
                    THEN raw
                    ELSE <<Head(raw)>> \o NonEmpty(SubSeq(raw, 2, Len(raw) - 1))
                         \o <<Last(raw)>>
        resolved == RemoveDots(segments, <<>>)
        closed == IF Last(segments) \in {<<".">>, <<"..">>}
                  THEN Append(resolved, <<>>) ELSE resolved
        joined == JoinSlash(closed)
    IN  IF path = <<>> THEN base_dir
        ELSE IF joined = <<>> THEN <<"/">> ELSE joined

\* _resolve_to_root_absolute(rel_url, base_dir)
ResolveToRootAbsolute(rel_url, base_dir) ==
    LET path == UrlJoinPath(base_dir, rel_url)
    IN  IF path # <<>> /\ Head(path) = "/" THEN path ELSE <<"/">> \o path

---------------------------------------------------------------------------
(* Paths: a path is a sequence of segments, a segment a sequence of tokens *)

INDEX_HTML == <<"index", ".html">>

\* Path.as_posix() of a path relative to ROOT
AsPosix(p) == JoinSlash(p)

\* Path.stem: the name without its last suffix; a name that is only a suffix
\* (the dot file ".html") has no suffix to drop
Stem(name) ==
    IF Len(name) >= 2 /\ Last(name) \in HtmlExts THEN Front(name) ELSE name

\* to_pretty_index(p)
to_pretty_index(p) == Front(p) \o <<Stem(Last(p))>> \o <<INDEX_HTML>>

\* pretty_url_for_index(pretty_index)
pretty_url_for_index(pretty_index) ==
    LET rel == AsPosix(pretty_index)
    IN  IF rel = INDEX_HTML THEN <<SITE, "/">>
        ELSE IF EndsWith(rel, <<"/">> \o INDEX_HTML)
             THEN <<SITE, "/">> \o Take(rel, Len(rel) - 2)
        ELSE <<SITE, "/">> \o rel

\* page_web_path of main(): "/" + p.relative_to(ROOT).as_posix()
PageWebPath(p) == <<"/">> \o AsPosix(p)

\* index of the last "/" token of a token sequence, 0 when none
RECURSIVE LastSlash(_, _)
LastSlash(toks, i) ==
    IF i = 0 THEN 0 ELSE IF toks[i] = "/" THEN i ELSE LastSlash(toks, i - 1)

\* base_dir of rewrite_document_for_pretty: page_web_path.rsplit("/", 1)[0] + "/"
BaseDir(page_web_path) ==
    LET i == LastSlash(page_web_path, Len(page_web_path))
    IN  IF i = 0 THEN page_web_path \o <<"/">> ELSE Take(page_web_path, i)

---------------------------------------------------------------------------
(* The rewriters.  Each takes one element and returns it rewritten. *)

\* (#[^"']*)? up to the closing quote: nothing, or a fragment to the end
FragRest(rest) == rest = <<>> \/ Head(rest) \in Fragments

\* [^"']+?\.html(#[^"']*)? up to the closing quote: the index of the first
\* extension token, at or after from, that only a fragment follows; 0 when none
RECURSIVE HtmlMatch(_, _)
HtmlMatch(val, from) ==
    IF from > Len(val) THEN 0
    ELSE IF val[from] \in HtmlExts /\ FragRest(Drop(val, from)) THEN from
    ELSE HtmlMatch(val, from + 1)

\* _fix_canonical_og_and_meta_images: the canonical link and og:url
FixCanonical(el, pretty_url) ==
    IF el.tag \in {"link-canonical", "meta-og:url"} /\ el.val # <<>>
    THEN [el EXCEPT !.val = pretty_url]
    ELSE el

\* _fix_canonical_og_and_meta_images._imgmeta: og:image / twitter:image
ImgMeta(el) ==
    IF el.tag \in {"meta-og:image", "meta-twitter:image"} /\ el.val # <<>>
    THEN [el EXCEPT !.val = IF PROTO_RE(el.val) THEN el.val
                             ELSE <<SITE>> \o ResolveToRootAbsolute(el.val, <<"/">>)]
    ELSE el

\* href="/index" or "/index/", with an optional fragment -> "/"
AbsIndex(el) ==
    IF el.attr = "href" /\ Len(el.val) >= 2 /\ Take(el.val, 2) = <<"/", "index">>
    THEN IF FragRest(Drop(el.val, 2))
         THEN [el EXCEPT !.val = <<"/">> \o Drop(el.val, 2)]
         ELSE IF el.val[3] = "/" /\ FragRest(Drop(el.val, 3))
         THEN [el EXCEPT !.val = <<"/">> \o Drop(el.val, 3)]
         ELSE el
    ELSE el

\* href="/index.html", with an optional fragment -> "/"
AbsIndexHtml(el) ==
    IF /\ el.attr = "href" /\ Len(el.val) >= 3
       /\ Take(el.val, 2) = <<"/", "index">> /\ el.val[3] \in HtmlExts
       /\ FragRest(Drop(el.val, 3))
    THEN [el EXCEPT !.val = <<"/">> \o Drop(el.val, 3)]
    ELSE el

\* href="/foo.html", with an optional fragment -> "/foo/"
AbsHtml(el) ==
    LET i == HtmlMatch(el.val, 3)
    IN  IF el.attr = "href" /\ el.val # <<>> /\ Head(el.val) = "/" /\ i # 0
        THEN [el EXCEPT !.val = <<"/">> \o SubSeq(el.val, 2, i - 1) \o <<"/">>
                                 \o Drop(el.val, i)]
        ELSE el

\* _rewrite_absolute_html_links
RewriteAbsoluteHtmlLinks(el) == AbsHtml(AbsIndexHtml(AbsIndex(el)))

\* _rewrite_relative_html_links.repl: /x/index.html -> /x/ ; /x.html -> /x/
\* (str.endswith is case-sensitive)
PrettyPath(resolved_path) ==
    IF EndsWith(resolved_path, <<"/">> \o INDEX_HTML)
    THEN Take(resolved_path, Len(resolved_path) - 2)
    ELSE IF Last(resolved_path) = ".html"
    THEN Append(Front(resolved_path), "/")
    ELSE resolved_path

\* _rewrite_relative_html_links
RewriteRelativeHtmlLinks(el, base_dir) ==
    LET i == HtmlMatch(el.val, 2)
    IN  IF el.attr = "href" /\ HrefLookahead(el.val) /\ i # 0
        THEN [el EXCEPT !.val =
                 PrettyPath(ResolveToRootAbsolute(Take(el.val, i), base_dir))
                 \o Drop(el.val, i)]
        ELSE el

\* _rewrite_relative_assets, 1: src / href / poster / data-src
RewriteSingleAsset(el, base_dir) ==
    IF el.attr \in {"src", "href", "poster", "data-src"} /\ AssetLookahead(el.val)
    THEN IF Last(el.val) \in HtmlExts THEN el
         ELSE [el EXCEPT !.val = ResolveToRootAbsolute(el.val, base_dir)]
    ELSE el

\* the separators and descriptors of a srcset value
Commas == {",", ", "}

Descriptors == {" 1x", " 2x"}

\* val.split(","): the parts between the commas
RECURSIVE SplitComma(_, _)
SplitComma(toks, cur) ==
    IF toks = <<>> THEN <<cur>>
    ELSE IF Head(toks) \in Commas THEN <<cur>> \o SplitComma(Tail(toks), <<>>)
    ELSE SplitComma(Tail(toks), Append(cur, Head(toks)))

\* fix_srcset_val, one part: the url resolved, the descriptor kept
FixSrcsetPart(part, base_dir) ==
    LET hasDesc == Last(part) \in Descriptors
        url == IF hasDesc THEN Front(part) ELSE part
        desc == IF hasDesc THEN <<Last(part)>> ELSE <<>>
        fixed == IF PROTO_RE(url) THEN url ELSE ResolveToRootAbsolute(url, base_dir)
    IN  fixed \o desc

\* ", ".join(fixed_parts)
RECURSIVE JoinComma(_, _)
JoinComma(parts, base_dir) ==
    IF parts = <<>> THEN <<>>
    ELSE IF Len(parts) = 1 THEN FixSrcsetPart(Head(parts), base_dir)
    ELSE FixSrcsetPart(Head(parts), base_dir) \o <<", ">>
         \o JoinComma(Tail(parts), base_dir)

\* _rewrite_relative_assets, 2: srcset / data-srcset
RewriteSrcset(el, base_dir) ==
    IF el.attr \in {"srcset", "data-srcset"} /\ el.val # <<>>
    THEN [el EXCEPT !.val = JoinComma(NonEmpty(SplitComma(el.val, <<>>)), base_dir)]
    ELSE el

\* index of the first token tok of a sequence at or after i, 0 when none
RECURSIVE IndexOf(_, _, _)
IndexOf(toks, tok, i) ==
    IF i > Len(toks) THEN 0
    ELSE IF toks[i] = tok THEN i ELSE IndexOf(toks, tok, i + 1)

\* fix_style: the url(...) of a style value resolved
FixStyle(style_val, base_dir) ==
    LET open == IndexOf(style_val, "url(", 1)
        close == IF open = 0 THEN 0 ELSE IndexOf(style_val, ")", open + 1)
        url == SubSeq(style_val, open + 1, close - 1)
    IN  IF open = 0 \/ close = 0 \/ url = <<>> \/ Contains(url, Quotes)
           \/ PROTO_RE(url)
        THEN style_val
        ELSE Take(style_val, open) \o ResolveToRootAbsolute(url, base_dir)
             \o Drop(style_val, close - 1)

\* _rewrite_relative_assets, 3: style=(["'])([^"']*)\1 matches a value that
\* holds no quote of either kind
RewriteStyle(el, base_dir) ==
    IF el.attr = "style" /\ ~Contains(el.val, Quotes)
    THEN [el EXCEPT !.val = FixStyle(el.val, base_dir)]
    ELSE el

\* _rewrite_relative_assets
RewriteRelativeAssets(el, base_dir) ==
    RewriteStyle(RewriteSrcset(RewriteSingleAsset(el, base_dir), base_dir), base_dir)

\* rewrite_document_for_pretty, on one element
RewriteElement(el, pretty_url, base_dir) ==
    RewriteRelativeAssets(
        RewriteRelativeHtmlLinks(
            RewriteAbsoluteHtmlLinks(ImgMeta(FixCanonical(el, pretty_url))),
            base_dir),
        base_dir)

\* rewrite_document_for_pretty(html, pretty_url, page_web_path)
rewrite_document_for_pretty(doc, pretty_url, page_web_path) ==
    [i \in 1..Len(doc) |-> RewriteElement(doc[i], pretty_url, BaseDir(page_web_path))]

---------------------------------------------------------------------------
(* Bounded inputs of the rewriter *)

\* the longest document drawn, in elements
MaxElems == 1

Prefixes == {<<>>, <<"..", "/">>, <<"/">>, <<"/", "books", "/">>, <<"sub", "/">>}

Names == {"about", "index"}

Exts == {<<".html">>, <<".HTML">>, <<".jpg">>, <<"/">>, <<>>}

Tails == {<<>>, <<"?x=1">>, <<"#team">>}

\* link targets: relative, root-absolute, flat, pretty, with query or fragment
LinkUrls ==
    {p \o <<n>> \o e \o t : p \in Prefixes, n \in Names, e \in Exts, t \in Tails}
    \cup {<<SITE, "/", "about", "/">>, <<EXTERNAL, "/", "about", ".html">>,
          <<"#team">>}

\* asset references
AssetUrls ==
    {p \o <<"pic">> \o e \o t :
        p \in Prefixes, e \in {<<".jpg">>, <<".html">>}, t \in Tails}
    \cup {<<SITE, "/", "pic", ".jpg">>, <<EXTERNAL, "/", "pic", ".jpg">>, <<DATA>>}

El(tag, attr, q, val) == [tag |-> tag, attr |-> attr, q |-> q, val |-> val]

Elements ==
    {El("a", "href", "\"", u) : u \in LinkUrls}
    \cup {El("link", "href", "\"", u) : u \in AssetUrls}
    \cup {El(t[1], t[2], "\"", u) :
            t \in {<<"img", "src">>, <<"video", "poster">>, <<"img", "data-src">>,
                   <<"meta-og:image", "content">>,
                   <<"meta-twitter:image", "content">>},
            u \in AssetUrls}
    \cup {El(t[1], t[2], "'", u) :
            t \in {<<"link-canonical", "href">>, <<"meta-og:url", "content">>},
            u \in {<<"about", ".html">>, <<SITE, "/", "about", ".html">>}}
    \cup {El("img", a, "\"", u1 \o <<" 1x">> \o c \o u2 \o <<" 2x">>) :
            a \in {"srcset", "data-srcset"}, c \in {<<",">>, <<", ">>},
            u1 \in {<<"pic", ".jpg">>, <<"/", "pic", ".jpg">>},
            u2 \in {<<"..", "/", "pic", ".jpg">>, <<EXTERNAL, "/", "pic", ".jpg">>}}
    \cup {El("div", "style", "\"", <<"background:", "url(">> \o u \o <<")">>) :
            u \in AssetUrls}
    \cup {El("div", "style", "\"",
             <<"background:", "url(", "'">> \o u \o <<"'", ")">>) :
            u \in AssetUrls}

RECURSIVE DocsOfLen(_)
DocsOfLen(n) ==
    IF n = 0 THEN {<<>>}
    ELSE {Append(d, e) : d \in DocsOfLen(n - 1), e \in Elements}

Docs == UNION {DocsOfLen(n) : n \in 1..MaxElems}

\* the original locations of the documents rewritten
Pages == {<<<<"about", ".html">>>>, <<<<"books">>, <<"foo", ".html">>>>}

\* the call of main(): rewrite_document_for_pretty(raw, pretty_url, page_web_path)
RewriteFor(doc, p) ==
    rewrite_document_for_pretty(doc, pretty_url_for_index(to_pretty_index(p)),
                                PageWebPath(p))

---------------------------------------------------------------------------
(* The rewriter applied to a document, and to its own output *)

RewriterIdle ==
    html = <<>> /\ page = <<>> /\ once = <<>> /\ twice = <<>> /\ rpc = "idle"

StageIdle == todo = {} /\ changed = <<>> /\ pc = "idle" /\ runs = 0

SitemapIdle == pending = <<>> /\ entries = <<>> /\ sitemap = <<>> /\ spc = "idle"

NoTree == fs = <<>> /\ orig = <<>>

RewriterInit ==
    /\ html \in Docs
    /\ page \in Pages
    /\ once = <<>> /\ twice = <<>> /\ rpc = "input"
    /\ NoTree /\ StageIdle /\ SitemapIdle

\* rewrite_document_for_pretty on the raw document
RewriteOnce ==
    /\ rpc = "input"
    /\ once' = RewriteFor(html, page)
    /\ rpc' = "once"
    /\ UNCHANGED <<html, page, twice, fs, orig, stageVars, sitemapVars>>

\* rewrite_document_for_pretty on its own output, same location and URL
RewriteAgain ==
    /\ rpc = "once"
    /\ twice' = RewriteFor(once, page)
    /\ rpc' = "twice"
    /\ UNCHANGED <<html, page, once, fs, orig, stageVars, sitemapVars>>

RewriterNext == RewriteOnce \/ RewriteAgain

SpecRewriter == RewriterInit /\ [][RewriterNext]_vars

---------------------------------------------------------------------------
(* Stage 1: main() of emit_pretty_urls.py over a tree of documents.  fs is *)
(* the tree, a function from the paths of the files that exist to their    *)
(* content.                                                                *)

\* the most files a tree holds before the first run
MaxFiles == 3

\* the number of runs of main() on the same tree
MaxRuns == 2

\* ignore(p)
ignore(p) ==
    \/ AsPosix(p) = <<"404", ".html">>
    \/ (Len(p) >= 2 /\ p[1] \in {<<"partials">>, <<".github">>})
    \/ Last(p) = INDEX_HTML

\* REDIRECT_STUB.format(to=pretty_url)
REDIRECT_STUB(to) ==
    << El("link-canonical", "href", "\"", to),
       El("meta-refresh", "content", "\"", <<"0; url=">> \o to),
       El("script", "location.replace", "\"", to) >>

\* the directories of a tree: the proper prefixes of the paths of its files
Dirs(tree) == UNION {{Take(q, k) : k \in 1..(Len(q) - 1)} : q \in DOMAIN tree}

\* ROOT.rglob("*.html"): every file, and every directory, of the tree whose
\* name ends in .html
HtmlFiles(tree) == {p \in DOMAIN tree \cup Dirs(tree) : Last(Last(p)) = ".html"}

\* p.write_text(content)
WriteText(tree, p, content) ==
    [q \in DOMAIN tree \cup {p} |-> IF q = p THEN content ELSE tree[q]]

\* pretty_index.parent.mkdir(parents=True, exist_ok=True) raises FileExistsError
\* when the directory, or one above it, exists as a file
MkdirRaises(tree, dir) == \E k \in 1..Len(dir) : Take(dir, k) \in DOMAIN tree

\* the relative .html substitution of the root index.html (no resolution):
\* href="x.html#f" -> href="/x/#f"
RootRelativeHtml(el) ==
    LET i == HtmlMatch(el.val, 2)
    IN  IF el.attr = "href" /\ HrefLookahead(el.val) /\ i # 0
        THEN [el EXCEPT !.val = <<"/">> \o Take(el.val, i - 1) \o <<"/">>
                                 \o Drop(el.val, i)]
        ELSE el

\* the four substitutions main() applies to the root index.html
RewriteRootIndex(doc) ==
    [i \in 1..Len(doc) |->
        RootRelativeHtml(AbsHtml(AbsIndex(AbsIndexHtml(doc[i]))))]

\* source documents a tree may hold before the first run
Sources ==
    { <<<<"about", ".html">>>>,
      <<<<"books">>, <<"foo", ".html">>>>,
      <<<<"404", ".html">>>>,
      <<INDEX_HTML>>,
      <<<<"about">>, INDEX_HTML>>,
      <<<<"partials">>, <<"nav", ".html">>>>,
      <<<<".github">>, <<"pr", ".html">>>>,
      <<<<"tools">>, <<"t", ".html">>>>,
      <<<<".html">>>>,
      <<<<".html", ".html">>>> }

\* contents a source document may have
FileDocs ==
    { <<El("a", "href", "\"", <<"contact", ".html">>)>>,
      <<El("a", "href", "\"", <<"/", "about", ".html", "#team">>),
        El("img", "src", "\"", <<"pic", ".jpg">>)>> }

Trees ==
    UNION {[S -> FileDocs] :
             S \in {T \in SUBSET Sources : Cardinality(T) \in 1..MaxFiles}}

Init ==
    /\ fs \in Trees
    /\ orig = fs
    /\ todo = {} /\ changed = <<>> /\ pc = "start" /\ runs = 0
    /\ RewriterIdle /\ SitemapIdle

\* main(), line 180: html_files = [p for p in ROOT.rglob("*.html")]
StartRun ==
    /\ pc \in {"start", "done"}
    /\ runs < MaxRuns
    /\ todo' = HtmlFiles(fs)
    /\ changed' = <<>>
    /\ pc' = "loop"
    /\ runs' = runs + 1
    /\ UNCHANGED <<fs, orig, rewriterVars, sitemapVars>>

\* one iteration of the loop on an ignored file: continue
SkipIgnored(p) ==
    /\ pc = "loop" /\ p \in todo
    /\ ignore(p)
    /\ todo' = todo \ {p}
    /\ UNCHANGED <<fs, orig, changed, pc, runs, rewriterVars, sitemapVars>>

\* one iteration of the loop: the pretty copy is written, then the stub
EmitPretty(p) ==
    /\ pc = "loop" /\ p \in todo
    /\ ~ignore(p)
    /\ p \in DOMAIN fs
    /\ LET pretty_index == to_pretty_index(p)
           pretty_url == pretty_url_for_index(pretty_index)
           pretty_html == rewrite_document_for_pretty(fs[p], pretty_url,
                                                      PageWebPath(p))
       IN  /\ ~MkdirRaises(fs, Front(pretty_index))
           /\ fs' = WriteText(WriteText(fs, pretty_index, pretty_html),
                              p, REDIRECT_STUB(pretty_url))
           /\ changed' = Append(changed, <<p, pretty_index>>)
    /\ todo' = todo \ {p}
    /\ UNCHANGED <<orig, pc, runs, rewriterVars, sitemapVars>>

\* one iteration of the loop: mkdir raises, the exception ends main()
MkdirFails(p) ==
    /\ pc = "loop" /\ p \in todo
    /\ ~ignore(p)
    /\ MkdirRaises(fs, Front(to_pretty_index(p)))
    /\ pc' = "aborted"
    /\ UNCHANGED <<fs, orig, todo, changed, runs, rewriterVars, sitemapVars>>

\* one iteration of the loop on a directory that rglob matched: p.read_text
\* raises IsADirectoryError; the exception ends main()
ReadDirectory(p) ==
    /\ pc = "loop" /\ p \in todo
    /\ ~ignore(p)
    /\ p \notin DOMAIN fs
    /\ ~MkdirRaises(fs, Front(to_pretty_index(p)))
    /\ pc' = "aborted"
    /\ UNCHANGED <<fs, orig, todo, changed, runs, rewriterVars, sitemapVars>>

\* one iteration of the loop: p.read_text or pretty_index.write_text raises
\* OSError before anything of p is written; the exception ends main()
ReadFails(p) ==
    /\ pc = "loop" /\ p \in todo
    /\ ~ignore(p)
    /\ p \in DOMAIN fs
    /\ ~MkdirRaises(fs, Front(to_pretty_index(p)))
    /\ pc' = "aborted"
    /\ UNCHANGED <<fs, orig, todo, changed, runs, rewriterVars, sitemapVars>>

\* one iteration of the loop: the pretty copy is written and the write of the
\* stub raises OSError; the exception ends main()
WriteStubFails(p) ==
    /\ pc = "loop" /\ p \in todo
    /\ ~ignore(p)
    /\ p \in DOMAIN fs
    /\ LET pretty_index == to_pretty_index(p)
       IN  /\ ~MkdirRaises(fs, Front(pretty_index))
           /\ fs' = WriteText(fs, pretty_index,
                     rewrite_document_for_pretty(fs[p],
                         pretty_url_for_index(pretty_index), PageWebPath(p)))
    /\ pc' = "aborted"
    /\ UNCHANGED <<orig, todo, changed, runs, rewriterVars, sitemapVars>>

\* after the loop: the links of the root index.html are made pretty in place
RootIndex ==
    /\ pc = "loop" /\ todo = {}
    /\ fs' = IF <<INDEX_HTML>> \in DOMAIN fs
             THEN WriteText(fs, <<INDEX_HTML>>, RewriteRootIndex(fs[<<INDEX_HTML>>]))
             ELSE fs
    /\ pc' = "done"
    /\ UNCHANGED <<orig, todo, changed, runs, rewriterVars, sitemapVars>>

Next ==
    \/ StartRun
    \/ \E p \in todo : SkipIgnored(p)
    \/ \E p \in todo : EmitPretty(p)
    \/ \E p \in todo : MkdirFails(p)
    \/ \E p \in todo : ReadDirectory(p)
    \/ \E p \in todo : ReadFails(p)
    \/ \E p \in todo : WriteStubFails(p)
    \/ RootIndex

Spec == Init /\ [][Next]_vars

---------------------------------------------------------------------------
(* Stage 2: main() of generate_sitemap.py over the tree stage 1 left *)

\* the most files a tree holds when the sitemap is built
MaxIndexes == 3

\* find_images_in(idx, limit=3)
ImageLimit == 3

SKIP_PREFIXES == {"partials", ".github", "tools"}

\* is_index(p)
is_index(p) == AsPosix(p) # <<"404", ".html">> /\ Last(p) = INDEX_HTML

\* the skip test with tools/ left out, as ignore() of stage 1 has it
StartsWithSkipPrefixNoTools(p) ==
    Len(p) >= 2 /\ p[1] \in {<<"partials">>, <<".github">>}

\* rel.startswith(pref) for a pref of SKIP_PREFIXES: the first directory of
\* the path is an excluded one
StartsWithSkipPrefix(p) == Len(p) >= 2 /\ \E pref \in SKIP_PREFIXES : p[1] = <<pref>>

\* pretty_url_for_index(p) of generate_sitemap.py
sitemap_pretty_url_for_index(p) ==
    LET rel == AsPosix(p)
    IN  IF rel = INDEX_HTML THEN <<SITE, "/">>
        ELSE <<SITE, "/">> \o Take(rel, Len(rel) - 2)

\* Path.with_suffix(".html") on a directory name
WithSuffixHtml(name) ==
    (IF Len(name) >= 2 /\ Last(name) \in HtmlExts THEN Front(name) ELSE name)
    \o <<".html">>

\* source_html_for_index(pretty_index): the flat source beside the directory
\* of the index, None (<<>>) when it does not exist or the index is the root's
source_html_for_index(tree, pretty_index) ==
    LET parent == Front(pretty_index)
        src == IF parent = <<>> THEN <<>>
               ELSE Append(Front(parent), WithSuffixHtml(Last(parent)))
    IN  IF src # <<>> /\ src \in DOMAIN tree THEN src ELSE <<>>

\* u.lstrip("./"): the leading dots and slashes dropped
RECURSIVE LStripDotSlash(_)
LStripDotSlash(u) ==
    IF u # <<>> /\ Head(u) \in {".", "..", "/"} THEN LStripDotSlash(Tail(u)) ELSE u

\* to_abs_url(u)
to_abs_url(u) ==
    IF Head(u) \in {SITE, EXTERNAL, DATA} THEN u
    ELSE IF Head(u) = "/" THEN <<SITE>> \o u
    ELSE <<SITE, "/">> \o LStripDotSlash(u)

\* a sequence without its repeated members, the first occurrence kept
RECURSIVE Uniq(_, _)
Uniq(s, seen) ==
    IF s = <<>> THEN <<>>
    ELSE IF Head(s) \in seen THEN Uniq(Tail(s), seen)
    ELSE <<Head(s)>> \o Uniq(Tail(s), seen \cup {Head(s)})

\* the values of the elements of a document that satisfy a test, in order
RECURSIVE ValsOf(_, _, _)
ValsOf(doc, tag, attr) ==
    IF doc = <<>> THEN <<>>
    ELSE (IF Head(doc).tag = tag /\ Head(doc).attr = attr /\ Head(doc).val # <<>>
          THEN <<Head(doc).val>> ELSE <<>>) \o ValsOf(Tail(doc), tag, attr)

Min(a, b) == IF a < b THEN a ELSE b

Max(a, b) == IF a > b THEN a ELSE b

\* find_images_in(pretty_html_path, limit): every og:image, then <img src>
\* until the list holds limit urls; made absolute, de-duplicated, cut to limit
find_images_in(doc, limit) ==
    LET og == ValsOf(doc, "meta-og:image", "content")
        img == ValsOf(doc, "img", "src")
        imgs == og \o Take(img, Min(Len(img), Max(1, limit - Len(og))))
        uniq == Uniq([i \in 1..Len(imgs) |-> to_abs_url(imgs[i])], {})
    IN  Take(uniq, Min(Len(uniq), limit))

\* "/" + pref in loc, for a pref of SKIP_PREFIXES
LocHasSkipPrefix(loc) ==
    \E i \in 1..(Len(loc) - 2) :
        loc[i] = "/" /\ loc[i + 1] \in SKIP_PREFIXES /\ loc[i + 2] = "/"

\* the guardrail: bad = [e["loc"] for e in entries if ...]
BadLocs(es) ==
    LET bad[i \in 0..Len(es)] ==
            IF i = 0 THEN <<>>
            ELSE IF LocHasSkipPrefix(es[i].loc) THEN Append(bad[i - 1], es[i].loc)
            ELSE bad[i - 1]
    IN  bad[Len(es)]

\* one <url> of sitemap.xml
UrlXml(e) ==
    [loc |-> e.loc, lastmod |-> e.lastmod, images |-> e.images,
     changefreq |-> IF e.loc = <<SITE, "/">> THEN "weekly" ELSE "monthly",
     priority |-> IF e.loc = <<SITE, "/">> THEN "0.9" ELSE "0.6"]

\* the files a tree may hold when the sitemap is built, as sorted() orders them
SitemapPaths ==
    << <<<<".github">>, <<"pr">>, INDEX_HTML>>,
       <<<<"about">>, INDEX_HTML>>,
       <<<<"about", ".html">>>>,
       <<<<"books">>, <<"foo">>, INDEX_HTML>>,
       <<<<"books">>, <<"tools">>, INDEX_HTML>>,
       <<INDEX_HTML>>,
       <<<<"partials">>, <<"nav">>, INDEX_HTML>>,
       <<<<"tools">>, <<"t">>, INDEX_HTML>> >>

SitemapDocs ==
    { <<El("a", "href", "\"", <<"/", "about", "/">>)>>,
      <<El("meta-og:image", "content", "\"", <<SITE, "/", "pic", ".jpg">>),
        El("img", "src", "\"", <<"/", "pic", ".jpg">>),
        El("img", "src", "\"", <<"..", "/", "a", ".jpg">>),
        El("img", "src", "\"", <<"/", "b", ".jpg">>)>> }

SitemapTrees ==
    UNION {[S -> SitemapDocs] :
             S \in {T \in SUBSET {SitemapPaths[i] : i \in 1..Len(SitemapPaths)} :
                      Cardinality(T) \in 1..MaxIndexes}}

\* sorted(indexes): the index documents of the tree, in order
SortedIndexes(tree) ==
    SelectSeq(SitemapPaths, LAMBDA p : p \in DOMAIN tree /\ is_index(p))

SitemapInit ==
    /\ fs \in SitemapTrees
    /\ orig = fs
    /\ pending = <<>> /\ entries = <<>> /\ sitemap = <<>> /\ spc = "start"
    /\ RewriterIdle /\ StageIdle

\* main(), line 126: indexes = [p for p in ROOT.rglob("index.html") if is_index(p)]
SitemapStart ==
    /\ spc = "start"
    /\ pending' = SortedIndexes(fs)
    /\ spc' = "loop"
    /\ UNCHANGED <<entries, sitemap, fs, orig, rewriterVars, stageVars>>

\* one iteration of the loop on an index under a skipped prefix: continue
SkipNonPublic ==
    /\ spc = "loop" /\ pending # <<>>
    /\ StartsWithSkipPrefix(Head(pending))
    /\ pending' = Tail(pending)
    /\ UNCHANGED <<entries, sitemap, spc, fs, orig, rewriterVars, stageVars>>

\* one iteration of the loop: an entry is appended; git knows the source's
\* last commit (tracked) or not
AddEntry ==
    /\ spc = "loop" /\ pending # <<>>
    /\ ~StartsWithSkipPrefix(Head(pending))
    /\ \E tracked \in BOOLEAN :
         LET idx == Head(pending)
             src == source_html_for_index(fs, idx)
         IN  entries' = Append(entries,
                 [loc |-> sitemap_pretty_url_for_index(idx),
                  lastmod |-> IF src # <<>> /\ tracked THEN <<"git", src>>
                              ELSE <<"mtime", idx>>,
                  images |-> find_images_in(fs[idx], ImageLimit)])
    /\ pending' = Tail(pending)
    /\ UNCHANGED <<sitemap, spc, fs, orig, rewriterVars, stageVars>>

\* the guardrail raises SystemExit: sitemap.xml is not written
GuardrailAbort ==
    /\ spc = "loop" /\ pending = <<>>
    /\ BadLocs(entries) # <<>>
    /\ spc' = "aborted"
    /\ UNCHANGED <<pending, entries, sitemap, fs, orig, rewriterVars, stageVars>>

\* sitemap.xml is written with one <url> per entry
WriteSitemap ==
    /\ spc = "loop" /\ pending = <<>>
    /\ BadLocs(entries) = <<>>
    /\ sitemap' = [i \in 1..Len(entries) |-> UrlXml(entries[i])]
    /\ spc' = "written"
    /\ UNCHANGED <<pending, entries, fs, orig, rewriterVars, stageVars>>

SitemapNext ==
    \/ SitemapStart
    \/ SkipNonPublic
    \/ AddEntry
    \/ GuardrailAbort
    \/ WriteSitemap

SpecSitemap == SitemapInit /\ [][SitemapNext]_vars

---------------------------------------------------------------------------
(* Vocabulary of the properties *)

\* a reference that is neither fully qualified, root-absolute, a data value
\* nor a bare fragment
IsRelative(ref) ==
    ref # <<>> /\ Head(ref) \notin {SITE, EXTERNAL, DATA, "/"} \cup Fragments

\* the url of the url(...) of a style value, its quotes dropped
StyleUrl(val) ==
    LET open == IndexOf(val, "url(", 1)
        close == IF open = 0 THEN 0 ELSE IndexOf(val, ")", open + 1)
    IN  IF open = 0 \/ close = 0 THEN <<>>
        ELSE SelectSeq(SubSeq(val, open + 1, close - 1), LAMBDA t : t \notin Quotes)

\* the urls of a srcset value, their descriptors dropped
SrcsetUrls(val) ==
    LET parts == NonEmpty(SplitComma(val, <<>>))
    IN  [i \in 1..Len(parts) |->
            IF Last(parts[i]) \in Descriptors THEN Front(parts[i]) ELSE parts[i]]

\* the references an element carries in src, href, poster, data-src, srcset
\* or an inline style url
RefsOf(el) ==
    IF el.tag = "link-canonical" THEN <<>>
    ELSE IF el.attr \in {"href", "src", "poster", "data-src"} THEN <<el.val>>
    ELSE IF el.attr \in {"srcset", "data-srcset"} THEN SrcsetUrls(el.val)
    ELSE IF el.attr = "style" THEN <<StyleUrl(el.val)>>
    ELSE <<>>

\* the trailing-slash form of a resolved path of a .html document
SlashForm(path) ==
    IF Len(path) >= 3 /\ Last(path) \in HtmlExts /\ path[Len(path) - 1] = "index"
       /\ path[Len(path) - 2] = "/"
    THEN Take(path, Len(path) - 2)
    ELSE IF Last(path) \in HtmlExts THEN Append(Front(path), "/")
    ELSE path

IsHtmlTarget(ref) == UrlPath(ref) # <<>> /\ Last(UrlPath(ref)) \in HtmlExts

\* the directory of the document's original location, "/books/" for
\* books/foo.html
OriginalDir(p) == <<"/">> \o Concat([i \in 1..(Len(p) - 1) |-> p[i] \o <<"/">>])

\* the fragment of a url: its first fragment token and what follows
FragmentOf(url) ==
    LET i == CHOOSE k \in 1..(Len(url) + 1) :
                 /\ (k <= Len(url) => url[k] \in Fragments)
                 /\ \A j \in 1..(k - 1) : url[j] \notin Fragments
    IN  Drop(url, i - 1)

PreviewTags == {"meta-og:image", "meta-twitter:image"}

---------------------------------------------------------------------------
(* Properties of the rewriter, under SpecRewriter *)

\* C1: the rewriter is idempotent: applied to its own output, with the same
\* location and public URL, it returns that output unchanged.
RewriterIdempotent == rpc = "twice" => twice = once

\* C2: every relative reference of the document (src, href, poster, data-src,
\* srcset, inline style url) is rewritten to the root-absolute path it resolves
\* to against the directory of the document's original location, a .html link
\* target in trailing-slash form.
ResolutionCorrect ==
    rpc = "once" =>
        \A i \in 1..Len(html) :
            LET before == RefsOf(html[i])
                after == RefsOf(once[i])
            IN  \A k \in 1..Len(before) :
                    IsRelative(before[k]) =>
                        /\ Len(after) >= k
                        /\ UrlPath(after[k]) =
                             LET r == ResolveToRootAbsolute(before[k], OriginalDir(page))
                             IN  IF html[i].attr = "href" /\ IsHtmlTarget(before[k])
                                 THEN SlashForm(r) ELSE r

\* C3: after rewriting, a preview-image value (og:image / twitter:image) that
\* is not a data value or an external url is the site domain plus a path: the
\* value resolved against the document's original directory.
PreviewImageIsFullUrl ==
    rpc = "once" =>
        \A i \in 1..Len(html) :
            (html[i].tag \in PreviewTags /\ Head(html[i].val) \notin {DATA, EXTERNAL, SITE})
                => /\ Head(once[i].val) = SITE
                   /\ UrlPath(Tail(once[i].val)) =
                        ResolveToRootAbsolute(html[i].val, OriginalDir(page))

\* C4: a rewritten document holds no unresolved relative reference and no
\* flat .html internal link.
NoRelativeOrFlatLink ==
    rpc = "once" =>
        \A i \in 1..Len(once) :
            \A k \in 1..Len(RefsOf(once[i])) :
                LET ref == RefsOf(once[i])[k]
                IN  /\ ~IsRelative(ref)
                    /\ (once[i].attr = "href" /\ ref # <<>> /\ Head(ref) = "/")
                          => ~IsHtmlTarget(ref)

\* C5: whenever the rewriter changes an href value that carries a fragment,
\* the rewritten value ends with the same fragment.
FragmentPreserved ==
    rpc = "once" =>
        \A i \in 1..Len(html) :
            (/\ html[i].attr = "href" /\ html[i].tag # "link-canonical"
             /\ once[i].val # html[i].val
             /\ FragmentOf(html[i].val) # <<>>)
                => FragmentOf(once[i].val) = FragmentOf(html[i].val)

---------------------------------------------------------------------------
(* Properties of stage 1, under Spec *)

\* the documents the design excludes from stage 1: the root 404.html, every
\* index.html, everything under partials/, .github/ or tools/
Excluded(p) ==
    \/ p = <<<<"404", ".html">>>>
    \/ Last(p) = INDEX_HTML
    \/ (Len(p) >= 2 /\ p[1] \in {<<"partials">>, <<".github">>, <<"tools">>})

\* the source documents of the tree before the first run
OriginalSources == {p \in DOMAIN orig : ~Excluded(p)}

PrettyUrlOf(p) == pretty_url_for_index(to_pretty_index(p))

\* the source has been replaced by its redirect stub
Stubbed(p) == p \in DOMAIN fs /\ fs[p] = REDIRECT_STUB(PrettyUrlOf(p))

\* the pretty document of the source has been written
PrettyWritten(p) ==
    /\ to_pretty_index(p) \in DOMAIN fs
    /\ (to_pretty_index(p) \in DOMAIN orig
          => fs[to_pretty_index(p)] # orig[to_pretty_index(p)])

\* C6: excluded documents are never mapped, rewritten or stub-generated: after
\* a run each has the content it had before, and nothing was produced from it.
ExcludedUntouched ==
    pc = "done" =>
        \A p \in DOMAIN orig :
            Excluded(p) =>
                /\ p \in DOMAIN fs /\ fs[p] = orig[p]
                /\ \A i \in 1..Len(changed) : changed[i][1] # p

\* C7: when a run has aborted, the tree is not partially rewritten: it holds
\* neither stubbed sources beside untouched ones, nor a pretty document whose
\* source has not been replaced by its stub.
AbortLeavesNoPartialTree ==
    (pc = "aborted" /\ runs = 1) =>
        /\ ~(\E p, q \in OriginalSources : Stubbed(p) /\ fs[q] = orig[q] /\ ~Stubbed(q))
        /\ ~(\E p \in OriginalSources : PrettyWritten(p) /\ ~Stubbed(p))

\* two distinct sources of the tree map to the same pretty path
Collision ==
    \E p, q \in {s \in HtmlFiles(orig) : s \in DOMAIN orig /\ ~ignore(s)} :
        p # q /\ to_pretty_index(p) = to_pretty_index(q)

\* C9: in a run every non-excluded source is mapped to exactly one pretty index
\* path, no two sources to the same one, and a collision is fatal before any
\* document is rewritten.
MappingTotalInjectiveOrFatal ==
    /\ (pc = "done" /\ runs = 1) =>
          \A p \in {s \in DOMAIN orig : ~ignore(s)} :
              Cardinality({i \in 1..Len(changed) : changed[i][1] = p}) = 1
    /\ \A i, j \in 1..Len(changed) :
          i # j => changed[i][2] # changed[j][2]
    /\ Collision => (fs = orig /\ changed = <<>>)

\* C10: after every run, the first and the later ones, the pretty document of
\* each original source holds the rewritten content of that source, and the
\* stub at the source's location redirects to the same public URL.
RerunKeepsContent ==
    pc = "done" =>
        \A p \in {s \in DOMAIN orig : ~ignore(s)} :
            /\ to_pretty_index(p) \in DOMAIN fs
            /\ fs[to_pretty_index(p)] = RewriteFor(orig[p], p)
            /\ Stubbed(p)

---------------------------------------------------------------------------
(* Properties of the sitemap build, under SpecSitemap *)

\* the path lies under an excluded directory
UnderExcludedDir(p) ==
    Len(p) >= 2 /\ p[1] \in {<<"partials">>, <<".github">>, <<"tools">>}

\* a directory below the first one carries an excluded directory's name
NestedExcludedDir(p) ==
    \E k \in 2..(Len(p) - 1) : p[k] \in {<<"partials">>, <<".github">>, <<"tools">>}

\* the location lies under an excluded directory
LocUnderExcludedDir(loc) ==
    Len(loc) >= 4 /\ loc[3] \in {"partials", ".github", "tools"} /\ loc[4] = "/"

IndexDocs == {p \in DOMAIN fs : Last(p) = INDEX_HTML}

\* C8, as claimed: the sitemap never lists a location under an excluded
\* directory, and an index document whose location falls under one is never
\* silently dropped: the build aborts before sitemap.xml is written.
ExcludedIndexIsFatal ==
    spc = "written" =>
        /\ \A i \in 1..Len(sitemap) : ~LocUnderExcludedDir(sitemap[i].loc)
        /\ \A p \in IndexDocs : ~UnderExcludedDir(p)

\* C8, amended: the sitemap never lists a location under an excluded directory.
\* An index document under an excluded directory is skipped without an error
\* and sitemap.xml is written with the locations of the other index documents;
\* the build aborts, sitemap.xml unwritten, exactly when one of those other
\* documents has an excluded directory's name deeper in its path.
ExcludedIndexIsFiltered ==
    /\ spc = "written" =>
          /\ \A i \in 1..Len(sitemap) : ~LocUnderExcludedDir(sitemap[i].loc)
          /\ {sitemap[i].loc : i \in 1..Len(sitemap)} =
                {sitemap_pretty_url_for_index(p) :
                    p \in {q \in IndexDocs : ~UnderExcludedDir(q)}}
    /\ spc \in {"written", "aborted"} =>
          (spc = "aborted" <=>
              \E p \in IndexDocs : ~UnderExcludedDir(p) /\ NestedExcludedDir(p))
    /\ spc # "written" => sitemap = <<>>

\* a sitemap was written, with an entry, for a tree that holds an index
\* document under an excluded directory
FilteredIndexWitness ==
    /\ spc = "written"
    /\ Len(sitemap) >= 1
    /\ \E p \in IndexDocs : UnderExcludedDir(p)

====
